---------------------------- MODULE Spec2Model ----------------------------
(***************************************************************************)
(* A model of the webarchive crate: the WebArchive / WebResource data      *)
(* model and its mapping to and from a property-list document (lib.rs),    *)
(* total_size / print_list (lib.rs), and the extraction routines save and  *)
(* save_archive of the command line tool (main.rs).                        *)
(*                                                                         *)
(* Strings the code looks into (URLs, paths, file extensions) are          *)
(* sequences of one-character strings; strings the code only stores or     *)
(* compares with "" are TLA+ strings.  Byte vectors are sequences of       *)
(* numbers.  Option<T> is a sequence of length 0 (None) or 1 (Some).       *)
(***************************************************************************)
EXTENDS Integers, Sequences, FiniteSets, TLC

VARIABLES
    archive,    \* the WebArchive value the run works on
    phase,      \* position of the library run: built / encoded / edited / decoded / listed
    document,   \* the property-list document (plist Value) between encode and decode
    decoded,    \* result of deserializing `document`: Ok(WebArchive) or Err
    listing,    \* what print_list reported: one entry per archive node
    inside,     \* extract: the output directory handed to save_archive
    stack,      \* extract: the call stack of save_archive frames
    files,      \* extract: the files of the file system, location -> bytes
    dirs,       \* extract: the directories created
    log,        \* extract: the save calls made, in order, each with how it ended
    status      \* extract: running / returned_ok / returned_err / panicked

vars ==
    <<archive, phase, document, decoded, listing, inside, stack, files, dirs, log, status>>

libVars == <<phase, document, decoded, listing>>
cliVars == <<inside, stack, files, dirs, log, status>>

-----------------------------------------------------------------------------
(* Bounds of the model *)

MaxData == 1      \* longest byte vector (data, response)
MaxList == 2      \* longest subresources / subframe_archives list
MaxDepth == 2     \* deepest nesting of subframe archives below the top archive
MaxUrlLen == 5    \* longest URL enumerated character by character

-----------------------------------------------------------------------------
(* Option<T> *)

None == <<>>
Some(x) == <<x>>
IsSome(o) == Len(o) = 1
Unwrap(o) == o[1]

(* Result<T, E> of the deserializer *)
Ok(x) == [ok |-> TRUE, v |-> x]
Err == [ok |-> FALSE, v |-> None]

RECURSIVE SumSeq(_)
SumSeq(s) == IF s = <<>> THEN 0 ELSE Head(s) + SumSeq(Tail(s))

RECURSIVE Flatten(_)
Flatten(ss) == IF ss = <<>> THEN <<>> ELSE Head(ss) \o Flatten(Tail(ss))

SeqsUpTo(S, n) == UNION {[1..k -> S] : k \in 0..n}

-----------------------------------------------------------------------------
(* lib.rs: the serde field names of WebResource and WebArchive *)

KeyData == "WebResourceData"
KeyURL == "WebResourceURL"
KeyFrameName == "WebResourceFrameName"
KeyMIMEType == "WebResourceMIMEType"
KeyTextEncodingName == "WebResourceTextEncodingName"
KeyResponse == "WebResourceResponse"

KeyMainResource == "WebMainResource"
KeySubresources == "WebSubresources"
KeySubframeArchives == "WebSubframeArchives"

ResourceKeys ==
    {KeyData, KeyURL, KeyFrameName, KeyMIMEType, KeyTextEncodingName, KeyResponse}
ResourceRequiredKeys == {KeyData, KeyURL, KeyMIMEType}
ArchiveKeys == {KeyMainResource, KeySubresources, KeySubframeArchives}
ArchiveRequiredKeys == {KeyMainResource}

(* struct WebResource / struct WebArchive as records *)
WebResource(data, url, frame_name, mime_type, text_encoding_name, response) ==
    [data |-> data, url |-> url, frame_name |-> frame_name, mime_type |-> mime_type,
     text_encoding_name |-> text_encoding_name, response |-> response]

WebArchive(main_resource, subresources, subframe_archives) ==
    [main_resource |-> main_resource, subresources |-> subresources,
     subframe_archives |-> subframe_archives]

-----------------------------------------------------------------------------
(* The property-list document: plist values, tagged with their plist type *)

StringValue(s) == [t |-> "string", v |-> s]
DataValue(b) == [t |-> "data", v |-> b]
ArrayValue(a) == [t |-> "array", v |-> a]
DictValue(f) == [t |-> "dictionary", v |-> f]

(* Serialize for WebResource: a dictionary with one entry per field; the   *)
(* plist struct serializer leaves out a field whose value is None and      *)
(* writes Some(x) as x.                                                    *)
EncodeResourceDropsOptionals(r) ==
    DictValue([k \in ResourceRequiredKeys |->
        CASE k = KeyData -> DataValue(r.data)
          [] k = KeyURL -> StringValue(r.url)
          [] k = KeyMIMEType -> StringValue(r.mime_type)])

EncodeResource(r) ==
    LET keys == ResourceRequiredKeys
                \cup (IF IsSome(r.frame_name) THEN {KeyFrameName} ELSE {})
                \cup (IF IsSome(r.text_encoding_name) THEN {KeyTextEncodingName} ELSE {})
                \cup (IF IsSome(r.response) THEN {KeyResponse} ELSE {})
    IN  DictValue([k \in keys |->
            CASE k = KeyData -> DataValue(r.data)
              [] k = KeyURL -> StringValue(r.url)
              [] k = KeyFrameName -> StringValue(Unwrap(r.frame_name))
              [] k = KeyMIMEType -> StringValue(r.mime_type)
              [] k = KeyTextEncodingName -> StringValue(Unwrap(r.text_encoding_name))
              [] k = KeyResponse -> DataValue(Unwrap(r.response))])

(* The keys Serialize for WebArchive writes: a None list is left out *)
ArchiveKeysEmittedAlways(a) == ArchiveKeys

ArchiveKeysEmitted(a) ==
    ArchiveRequiredKeys
    \cup (IF IsSome(a.subresources) THEN {KeySubresources} ELSE {})
    \cup (IF IsSome(a.subframe_archives) THEN {KeySubframeArchives} ELSE {})

ListOf(o) == IF IsSome(o) THEN Unwrap(o) ELSE <<>>

(* Serialize for WebArchive, recursively *)
RECURSIVE EncodeArchive(_)
EncodeArchive(a) ==
    DictValue([k \in ArchiveKeysEmitted(a) |->
        CASE k = KeyMainResource -> EncodeResource(a.main_resource)
          [] k = KeySubresources ->
                LET rs == ListOf(a.subresources)
                IN  ArrayValue([i \in 1..Len(rs) |-> EncodeResource(rs[i])])
          [] k = KeySubframeArchives ->
                LET as == ListOf(a.subframe_archives)
                IN  ArrayValue([i \in 1..Len(as) |-> EncodeArchive(as[i])])])

(* ruma_serde::empty_string_as_none applied to the value found under a key *)
KeepsEmptyString(value) == Some(value.v)

empty_string_as_none(value) ==
    IF value.v = "" THEN None ELSE Some(value.v)

(* A field with #[serde(default)] is None when its key is missing *)
OptionalString(f, key) ==
    IF key \in DOMAIN f THEN empty_string_as_none(f[key]) ELSE None

OptionalBytes(f, key) ==
    IF key \in DOMAIN f THEN Some(f[key].v) ELSE None

(* The plist type each key's value must have *)
KeyType(key) ==
    CASE key \in {KeyURL, KeyFrameName, KeyMIMEType, KeyTextEncodingName} -> "string"
      [] key \in {KeyData, KeyResponse} -> "data"
      [] key = KeyMainResource -> "dictionary"
      [] key \in {KeySubresources, KeySubframeArchives} -> "array"

WellTyped(f) == \A k \in DOMAIN f : f[k].t = KeyType(k)

(* Deserialize for WebResource (deny_unknown_fields) *)
ResourceFieldsAccepted(f) ==
    /\ DOMAIN f \subseteq ResourceKeys
    /\ ResourceRequiredKeys \subseteq DOMAIN f
    /\ WellTyped(f)

DecodeResourceIgnoresUnknown(d) ==
    IF d.t # "dictionary" THEN Err
    ELSE IF ~ (ResourceRequiredKeys \subseteq DOMAIN d.v) THEN Err
    ELSE Ok(WebResource(d.v[KeyData].v, d.v[KeyURL].v,
                        OptionalString(d.v, KeyFrameName), d.v[KeyMIMEType].v,
                        OptionalString(d.v, KeyTextEncodingName),
                        OptionalBytes(d.v, KeyResponse)))

DecodeResource(d) ==
    IF d.t # "dictionary" THEN Err
    ELSE IF ~ ResourceFieldsAccepted(d.v) THEN Err
    ELSE Ok(WebResource(d.v[KeyData].v, d.v[KeyURL].v,
                        OptionalString(d.v, KeyFrameName), d.v[KeyMIMEType].v,
                        OptionalString(d.v, KeyTextEncodingName),
                        OptionalBytes(d.v, KeyResponse)))

ArchiveFieldsAccepted(f) ==
    /\ DOMAIN f \subseteq ArchiveKeys
    /\ ArchiveRequiredKeys \subseteq DOMAIN f
    /\ WellTyped(f)

(* Deserialize for WebArchive (deny_unknown_fields), recursively; an error *)
(* anywhere below fails the whole document.  An Option field without a     *)
(* deserialize_with is None when its key is missing.                       *)
RECURSIVE DecodeArchive(_)
DecodeArchive(d) ==
    IF d.t # "dictionary" THEN Err
    ELSE IF ~ ArchiveFieldsAccepted(d.v) THEN Err
    ELSE
      LET f == d.v
          main == DecodeResource(f[KeyMainResource])
          subs == IF KeySubresources \in DOMAIN f
                  THEN [i \in 1..Len(f[KeySubresources].v) |->
                            DecodeResource(f[KeySubresources].v[i])]
                  ELSE <<>>
          frames == IF KeySubframeArchives \in DOMAIN f
                    THEN [i \in 1..Len(f[KeySubframeArchives].v) |->
                              DecodeArchive(f[KeySubframeArchives].v[i])]
                    ELSE <<>>
      IN  IF /\ main.ok
             /\ \A i \in 1..Len(subs) : subs[i].ok
             /\ \A i \in 1..Len(frames) : frames[i].ok
          THEN Ok(WebArchive(
                    main.v,
                    IF KeySubresources \in DOMAIN f
                    THEN Some([i \in 1..Len(subs) |-> subs[i].v]) ELSE None,
                    IF KeySubframeArchives \in DOMAIN f
                    THEN Some([i \in 1..Len(frames) |-> frames[i].v]) ELSE None))
          ELSE Err

-----------------------------------------------------------------------------
(* lib.rs: WebArchive::total_size and WebArchive::print_list *)

DataLenWithResponse(r) ==
    Len(r.data) + (IF IsSome(r.response) THEN Len(Unwrap(r.response)) ELSE 0)

DataLen(r) == Len(r.data)

RECURSIVE total_size(_)
total_size(a) ==
    LET subresource_size ==
            IF IsSome(a.subresources)
            THEN SumSeq([i \in 1..Len(Unwrap(a.subresources)) |->
                            DataLen(Unwrap(a.subresources)[i])])
            ELSE 0
        subframe_archive_size ==
            IF IsSome(a.subframe_archives)
            THEN SumSeq([i \in 1..Len(Unwrap(a.subframe_archives)) |->
                            total_size(Unwrap(a.subframe_archives)[i])])
            ELSE 0
    IN  DataLen(a.main_resource) + subresource_size + subframe_archive_size

(* print_list: one header line per archive node (url, mime type, size,     *)
(* counts, total), one line per direct subresource, then the nested        *)
(* archives in list order.                                                 *)
RECURSIVE print_list(_)
print_list(a) ==
    LET subresource_count ==
            IF IsSome(a.subresources) THEN Len(Unwrap(a.subresources)) ELSE 0
        subframe_archive_count ==
            IF IsSome(a.subframe_archives) THEN Len(Unwrap(a.subframe_archives)) ELSE 0
        header == [line |-> "archive", url |-> a.main_resource.url,
                   mime_type |-> a.main_resource.mime_type,
                   bytes |-> DataLen(a.main_resource),
                   subresources |-> subresource_count,
                   subframe_archives |-> subframe_archive_count,
                   total |-> total_size(a)]
        items == IF IsSome(a.subresources)
                 THEN [i \in 1..subresource_count |->
                        LET r == Unwrap(a.subresources)[i]
                        IN  [line |-> "subresource", url |-> r.url,
                             mime_type |-> r.mime_type, bytes |-> DataLen(r),
                             subresources |-> 0, subframe_archives |-> 0, total |-> 0]]
                 ELSE <<>>
        nested == IF IsSome(a.subframe_archives)
                  THEN Flatten([i \in 1..subframe_archive_count |->
                                    print_list(Unwrap(a.subframe_archives)[i])])
                  ELSE <<>>
    IN  <<header>> \o items \o nested

-----------------------------------------------------------------------------
(* Positions in a document and in an archive.  A path is a sequence of     *)
(* steps [k, i]: key k, and for an array the element i (0 for a key whose  *)
(* value is a dictionary).                                                 *)

Step(k, i) == [k |-> k, i |-> i]

Child(d, step) ==
    IF step.i = 0 THEN d.v[step.k] ELSE d.v[step.k].v[step.i]

RECURSIVE GetAt(_, _)
GetAt(d, path) ==
    IF path = <<>> THEN d ELSE GetAt(Child(d, Head(path)), Tail(path))

ArrayLen(d, key) == IF key \in DOMAIN d.v THEN Len(d.v[key].v) ELSE 0

(* paths of the archive dictionaries of a document: the top one and every  *)
(* element of a WebSubframeArchives array, at any depth                    *)
RECURSIVE ArchivePaths(_)
ArchivePaths(d) ==
    {<<>>} \cup
    UNION {{<<Step(KeySubframeArchives, j)>> \o p :
                p \in ArchivePaths(Child(d, Step(KeySubframeArchives, j)))} :
           j \in 1..ArrayLen(d, KeySubframeArchives)}

(* paths of the resource dictionaries of a document *)
ResourcePaths(d) ==
    UNION {
        (IF KeyMainResource \in DOMAIN GetAt(d, ap).v
         THEN {ap \o <<Step(KeyMainResource, 0)>>} ELSE {})
        \cup {ap \o <<Step(KeySubresources, j)>> :
                j \in 1..ArrayLen(GetAt(d, ap), KeySubresources)} :
        ap \in ArchivePaths(d)}

DictPaths(d) == ArchivePaths(d) \cup ResourcePaths(d)

(* the same positions in a WebArchive value *)
ArchiveChild(a, step) ==
    CASE step.k = KeyMainResource -> a.main_resource
      [] step.k = KeySubresources -> Unwrap(a.subresources)[step.i]
      [] step.k = KeySubframeArchives -> Unwrap(a.subframe_archives)[step.i]

RECURSIVE ArchiveAt(_, _)
ArchiveAt(a, path) ==
    IF path = <<>> THEN a ELSE ArchiveAt(ArchiveChild(a, Head(path)), Tail(path))

(* a document with the dictionary at `path` replaced by `g` *)
RECURSIVE ReplaceAt(_, _, _)
ReplaceAt(d, path, g) ==
    IF path = <<>> THEN DictValue(g)
    ELSE LET h == Head(path)
             sub == ReplaceAt(Child(d, h), Tail(path), g)
         IN  IF h.i = 0
             THEN DictValue([d.v EXCEPT ![h.k] = sub])
             ELSE DictValue([d.v EXCEPT ![h.k] =
                                ArrayValue([d.v[h.k].v EXCEPT ![h.i] = sub])])

WithKey(f, key, value) ==
    [k \in DOMAIN f \cup {key} |-> IF k = key THEN value ELSE f[k]]

WithoutKey(f, key) == [k \in DOMAIN f \ {key} |-> f[k]]

-----------------------------------------------------------------------------
(* Archive values the library run starts from *)

UrlPage == <<"/", "/", "a", "/">>
UrlImage == <<"/", "/", "a", "/", "a">>
UrlFrame == <<"/", "/", "a", "/", ".">>

Bytes(n) == [i \in 1..n |-> i]
ByteVectors == {Bytes(n) : n \in 0..MaxData}

Optional(S) == {None} \cup {Some(x) : x \in S}

FrameNames == {"", "nav"}
EncodingNames == {"", "UTF-8"}

Resources ==
    {WebResource(d, UrlPage, fn, "text/html", en, rs) :
        d \in ByteVectors, fn \in Optional(FrameNames),
        en \in Optional(EncodingNames), rs \in Optional(ByteVectors)}

LeafImage ==
    WebResource(Bytes(MaxData), UrlImage, None, "image/png", None, Some(Bytes(MaxData)))
LeafFrame ==
    WebResource(Bytes(1), UrlFrame, Some("nav"), "text/html", Some("UTF-8"), None)
LeafBlank ==
    WebResource(Bytes(0), UrlPage, Some(""), "text/css", Some(""), Some(Bytes(0)))

Leaves == {LeafImage, LeafFrame}

ResourceLists == Optional(SeqsUpTo(Leaves, MaxList)) \cup {Some(<<LeafBlank>>)}

LeafArchives ==
    {WebArchive(m, s, f) :
        m \in {LeafImage, LeafFrame},
        s \in {None, Some(<<>>), Some(<<LeafBlank>>)},
        f \in {None, Some(<<>>)}}

RECURSIVE NestedArchives(_)
NestedArchives(depth) ==
    IF depth <= 1 THEN LeafArchives
    ELSE LeafArchives \cup
         {WebArchive(LeafFrame, None, Some(<<n>>)) : n \in NestedArchives(depth - 1)}

FrameA == WebArchive(LeafFrame, Some(<<LeafImage>>), None)
FrameB == WebArchive(LeafImage, None, None)

ArchiveLists ==
    IF MaxDepth = 0 THEN {None, Some(<<>>)}
    ELSE {None, Some(<<>>)}
         \cup {Some(<<n>>) : n \in NestedArchives(MaxDepth)}
         \cup {Some(l) : l \in SeqsUpTo({FrameA, FrameB}, MaxList) \ {<<>>}}

Archives ==
    {WebArchive(m, s, f) :
        m \in Resources, s \in {None, Some(<<LeafImage>>)}, f \in {None, Some(<<FrameA>>)}}
    \cup
    {WebArchive(m, s, f) :
        m \in {LeafFrame}, s \in ResourceLists, f \in ArchiveLists}

-----------------------------------------------------------------------------
(* The library run: build an archive, write it (to_writer_xml /            *)
(* to_writer_binary), read a document (from_bytes / from_reader), list it  *)

IdleCli ==
    /\ inside = <<>>
    /\ stack = <<>>
    /\ files = <<>>
    /\ dirs = {}
    /\ log = <<>>
    /\ status = "idle"

Init ==
    /\ archive \in Archives
    /\ phase = "built"
    /\ document = None
    /\ decoded = None
    /\ listing = None
    /\ IdleCli

(* to_writer_xml / to_writer_binary: serialize the archive *)
Encode ==
    /\ phase = "built"
    /\ document' = EncodeArchive(archive)
    /\ phase' = "encoded"
    /\ UNCHANGED <<archive, decoded, listing, cliVars>>

(* The document read need not come from this library: another writer may   *)
(* have put a key the schema does not define into any dictionary,          *)
ForeignUnknownKey ==
    /\ phase = "encoded"
    /\ \E p \in DictPaths(document) :
          document' = ReplaceAt(document, p,
                          WithKey(GetAt(document, p).v, "WebUnknown", StringValue("x")))
    /\ phase' = "edited"
    /\ UNCHANGED <<archive, decoded, listing, cliVars>>

(* written "" under the frame name or text encoding key of any resource,   *)
ForeignEmptyString ==
    /\ phase = "encoded"
    /\ \E p \in ResourcePaths(document), k \in {KeyFrameName, KeyTextEncodingName} :
          document' = ReplaceAt(document, p,
                          WithKey(GetAt(document, p).v, k, StringValue("")))
    /\ phase' = "edited"
    /\ UNCHANGED <<archive, decoded, listing, cliVars>>

(* or left out any key.                                                    *)
ForeignMissingKey ==
    /\ phase = "encoded"
    /\ \E p \in DictPaths(document) :
          \E k \in DOMAIN GetAt(document, p).v :
              document' = ReplaceAt(document, p, WithoutKey(GetAt(document, p).v, k))
    /\ phase' = "edited"
    /\ UNCHANGED <<archive, decoded, listing, cliVars>>

(* from_bytes / from_file / from_reader: deserialize the document *)
Decode ==
    /\ phase \in {"encoded", "edited"}
    /\ decoded' = DecodeArchive(document)
    /\ phase' = IF phase = "encoded" THEN "decoded" ELSE "decoded_edited"
    /\ UNCHANGED <<archive, document, listing, cliVars>>

(* WebArchive::print_list (which calls total_size) *)
Inspect ==
    /\ phase = "built"
    /\ listing' = print_list(archive)
    /\ phase' = "listed"
    /\ UNCHANGED <<archive, document, decoded, cliVars>>

Next ==
    \/ Encode
    \/ ForeignUnknownKey
    \/ ForeignEmptyString
    \/ ForeignMissingKey
    \/ Decode
    \/ Inspect

Spec == Init /\ [][Next]_vars

-----------------------------------------------------------------------------
(* main.rs: save.  URLs and paths are sequences of characters. *)

(* url.splitn(2, "//").last(): what follows the first "//", or the whole   *)
(* string when there is no "//"                                            *)
DoubleSlashAt(url) ==
    {i \in 1..(Len(url) - 1) : url[i] = "/" /\ url[i + 1] = "/"}

Minimum(S) == CHOOSE m \in S : \A n \in S : m <= n

SplitLast(url) ==
    IF DoubleSlashAt(url) = {} THEN url
    ELSE SubSeq(url, Minimum(DoubleSlashAt(url)) + 2, Len(url))

EndsWithSlash(s) == Len(s) > 0 /\ s[Len(s)] = "/"

(* mime_guess::get_mime_extensions_str: None for a type the table does not *)
(* know, otherwise the table's extensions in the table's order             *)
MimeTypes == {"text/html", "image/png", "application/x-unlisted"}

get_mime_extensions_str(mime_type) ==
    CASE mime_type = "text/html" ->
            Some(<< <<"h", "t", "m">>, <<"h", "t", "m", "l">>, <<"s", "h", "t", "m", "l">> >>)
      [] mime_type = "image/png" -> Some(<< <<"p", "n", "g">> >>)
      [] OTHER -> None

Txt == <<"t", "x", "t">>
UnnamedIndex == <<"_", "u", "n", "n", "a", "m", "e", "d", "_", "i", "n", "d", "e", "x", ".">>

GuessedExtFirst(mime_type) ==
    LET found == get_mime_extensions_str(mime_type)
    IN  IF found = None THEN Txt ELSE Unwrap(found)[1]

GuessedExt(mime_type) ==
    LET found == get_mime_extensions_str(mime_type)
    IN  IF found = None THEN Txt ELSE Unwrap(found)[Len(Unwrap(found))]

(* the local `url` of save once the file name has been generated *)
FileName(resource) ==
    LET url == SplitLast(resource.url)
    IN  IF EndsWithSlash(url)
        THEN url \o UnnamedIndex \o GuessedExt(resource.mime_type)
        ELSE url

(* Path::join: an absolute right-hand side replaces the left-hand side;    *)
(* otherwise a separator is added unless the left-hand side is empty or    *)
(* ends with one                                                           *)
IsAbsolute(path) == Len(path) > 0 /\ path[1] = "/"

PathJoin(base, path) ==
    IF IsAbsolute(path) THEN path
    ELSE IF base = <<>> \/ EndsWithSlash(base) THEN base \o path
    ELSE base \o <<"/">> \o path

SavePath(resource, dir) == PathJoin(dir, FileName(resource))

(* Path::components: the segments between separators, without empty ones  *)
(* and without "." other than a leading one                                *)
RECURSIVE Segments(_)
Segments(path) ==
    IF \A i \in 1..Len(path) : path[i] # "/" THEN <<path>>
    ELSE LET i == Minimum({j \in 1..Len(path) : path[j] = "/"})
         IN  <<SubSeq(path, 1, i - 1)>> \o Segments(SubSeq(path, i + 1, Len(path)))

RECURSIVE KeptFrom(_, _)
KeptFrom(segs, i) ==
    IF i > Len(segs) THEN <<>>
    ELSE IF segs[i] = <<>> \/ (segs[i] = <<".">> /\ i > 1) THEN KeptFrom(segs, i + 1)
    ELSE <<segs[i]>> \o KeptFrom(segs, i + 1)

Components(path) == [root |-> IsAbsolute(path), names |-> KeptFrom(Segments(path), 1)]

(* Path::parent: the path without its last component; None for the root    *)
(* and for the empty path                                                  *)
PathParent(path) ==
    LET c == Components(path)
    IN  IF c.names = <<>> THEN None
        ELSE Some([c EXCEPT !.names = SubSeq(c.names, 1, Len(c.names) - 1)])

(* where the file system finds a path: "." stays, ".." goes to the parent  *)
(* (the root is its own parent; above the working directory the ".." are   *)
(* kept)                                                                   *)
RECURSIVE Walk(_, _, _)
Walk(root, at, names) ==
    IF names = <<>> THEN at
    ELSE LET n == Head(names)
         IN  IF n = <<".">> THEN Walk(root, at, Tail(names))
             ELSE IF n = <<".", ".">>
             THEN IF at # <<>> /\ at[Len(at)] # <<".", ".">>
                  THEN Walk(root, SubSeq(at, 1, Len(at) - 1), Tail(names))
                  ELSE IF root THEN Walk(root, at, Tail(names))
                  ELSE Walk(root, Append(at, n), Tail(names))
             ELSE Walk(root, Append(at, n), Tail(names))

Location(c) == [root |-> c.root, names |-> Walk(c.root, <<>>, c.names)]

(* std::fs::create_dir_all: every directory on the way to `dir` *)
DirsCreated(dir) ==
    {Location([dir EXCEPT !.names = SubSeq(dir.names, 1, k)]) : k \in 0..Len(dir.names)}

(* a path File::create cannot make a file of: it names a directory *)
NamesDirectory(path) ==
    Segments(path)[Len(Segments(path))] \in {<<>>, <<".">>, <<".", ".">>}

Prefixes(data) == {SubSeq(data, 1, k) : k \in 0..(Len(data) - 1)}

WithFile(fs, at, data) ==
    [l \in DOMAIN fs \cup {at} |-> IF l = at THEN data ELSE fs[l]]

(* save(resource, inside): every way the call can end.  It panics when the *)
(* path has no parent; create_dir_all, File::create and write_all can each *)
(* fail with an I/O error, which save returns; File::create truncates, so  *)
(* a failing write_all leaves part of the data; File::create fails where   *)
(* the path names a directory.                                             *)
SaveOutcomes(resource, dir, fs, ds) ==
    LET path == SavePath(resource, dir)
        parent_path == PathParent(path)
        at == Location(Components(path))
        made == ds \cup DirsCreated(Unwrap(parent_path))
        no_file == at \in made \/ NamesDirectory(path)
        entry(result) == [resource |-> resource, inside |-> dir, path |-> path,
                          result |-> result]
    IN  IF parent_path = None
        THEN {[result |-> "panic", files |-> fs, dirs |-> ds, entry |-> entry("panic")]}
        ELSE {[result |-> "err", files |-> fs, dirs |-> ds, entry |-> entry("err")],
              [result |-> "err", files |-> fs, dirs |-> made, entry |-> entry("err")]}
             \cup {[result |-> "err", files |-> WithFile(fs, at, part), dirs |-> made,
                    entry |-> entry("err")] :
                        part \in IF no_file THEN {} ELSE Prefixes(resource.data)}
             \cup (IF no_file THEN {}
                   ELSE {[result |-> "ok", files |-> WithFile(fs, at, resource.data),
                          dirs |-> made, entry |-> entry("ok")]})

-----------------------------------------------------------------------------
(* main.rs: save_archive, as a call stack of frames.  A frame is at "main" *)
(* before its main resource is saved and at "lists" afterwards, with the   *)
(* index of the next subresource and of the next subframe archive.         *)

Frame(a, dir) == [archive |-> a, inside |-> dir, pc |-> "main", sub |-> 1, frm |-> 1]

SubframeDirPerFrame(frame) == frame.inside \o <<"/", "f">>

(* the directory save_archive passes on to a nested save_archive *)
SubframeDir(frame) == frame.inside

Top == stack[Len(stack)]
Below == SubSeq(stack, 1, Len(stack) - 1)

(* what a failed save of a subresource or a failed nested save_archive     *)
(* does to the run: .expect(...) panics                                    *)
ExpectContinues(result) == "running"

Expect(result) == IF result = "ok" THEN "running" ELSE "panicked"

(* save(archive.main_resource, inside)? : an error is returned to the     *)
(* caller of this save_archive; for a nested save_archive the caller is    *)
(* the closure that calls .expect on it                                    *)
SaveMainResource ==
    /\ status = "running"
    /\ Top.pc = "main"
    /\ \E o \in SaveOutcomes(Top.archive.main_resource, Top.inside, files, dirs) :
          /\ files' = o.files
          /\ dirs' = o.dirs
          /\ log' = Append(log, o.entry)
          /\ IF o.result = "ok"
             THEN /\ stack' = Append(Below, [Top EXCEPT !.pc = "lists"])
                  /\ status' = "running"
             ELSE /\ stack' = stack
                  /\ status' = IF o.result = "panic" THEN "panicked"
                               ELSE IF Len(stack) = 1 THEN "returned_err"
                               ELSE Expect(o.result)
    /\ UNCHANGED <<archive, inside, libVars>>

(* subresources.into_iter().for_each(|s| save(s, inside).expect(..)) *)
SaveSubresource ==
    /\ status = "running"
    /\ Top.pc = "lists"
    /\ Top.sub <= Len(ListOf(Top.archive.subresources))
    /\ \E o \in SaveOutcomes(Unwrap(Top.archive.subresources)[Top.sub], Top.inside,
                             files, dirs) :
          /\ files' = o.files
          /\ dirs' = o.dirs
          /\ log' = Append(log, o.entry)
          /\ IF o.result = "ok"
             THEN /\ stack' = Append(Below, [Top EXCEPT !.sub = @ + 1])
                  /\ status' = "running"
             ELSE /\ stack' = stack
                  /\ status' = IF o.result = "panic" THEN "panicked"
                               ELSE Expect(o.result)
    /\ UNCHANGED <<archive, inside, libVars>>

(* subframe_archives.into_iter().for_each(|a| save_archive(a, inside)..)  *)
EnterSubframeArchive ==
    /\ status = "running"
    /\ Top.pc = "lists"
    /\ Top.sub > Len(ListOf(Top.archive.subresources))
    /\ Top.frm <= Len(ListOf(Top.archive.subframe_archives))
    /\ stack' = Append(stack, Frame(Unwrap(Top.archive.subframe_archives)[Top.frm],
                                    SubframeDir(Top)))
    /\ UNCHANGED <<archive, inside, files, dirs, log, status, libVars>>

(* Ok(()) at the end of save_archive *)
ReturnOk ==
    /\ status = "running"
    /\ Top.pc = "lists"
    /\ Top.sub > Len(ListOf(Top.archive.subresources))
    /\ Top.frm > Len(ListOf(Top.archive.subframe_archives))
    /\ IF Len(stack) = 1
       THEN /\ stack' = <<>>
            /\ status' = "returned_ok"
       ELSE /\ stack' = Append(SubSeq(stack, 1, Len(stack) - 2),
                               [stack[Len(stack) - 1] EXCEPT !.frm = @ + 1])
            /\ status' = "running"
    /\ UNCHANGED <<archive, inside, files, dirs, log, libVars>>

-----------------------------------------------------------------------------
(* The extract run: `webarchive extract <input> [-o <output>]` calls       *)
(* save_archive(webarchive, output)                                        *)

(* output directories: the working directory (the parent of a bare input   *)
(* file name), a relative and an absolute one                              *)
BaseDirs == {<<>>, <<"o">>, <<"/", "o">>}

UrlChars == {"a", "/", "."}
Urls == SeqsUpTo(UrlChars, MaxUrlLen)

(* archives of one resource, over every URL and MIME type *)
SingleResourceArchives ==
    {WebArchive(WebResource(Bytes(1), u, None, m, None, None), None, None) :
        u \in Urls, m \in MimeTypes}

(* archive trees whose resources all have different URLs: the shape of a   *)
(* tree is the number of its subresources (-1: no list) and the shapes of  *)
(* its subframe archives (None: no list)                                   *)
Shape(subs, frames) == [subs |-> subs, frames |-> frames]

LeafShapes == {Shape(-1, None), Shape(1, None)}

RECURSIVE Shapes(_)
Shapes(depth) ==
    IF depth = 0 THEN LeafShapes
    ELSE LeafShapes \cup {Shape(1, Some(<<x>>)) : x \in Shapes(depth - 1)}

TopShapes ==
    {Shape(n, f) :
        n \in -1..MaxList,
        f \in IF MaxDepth = 0 THEN {None, Some(<<>>)}
              ELSE Optional(SeqsUpTo(LeafShapes, MaxList))
                   \cup {Some(<<x, y>>) : x \in Shapes(MaxDepth - 1), y \in LeafShapes}}

Digit(i) == <<"1", "2", "3", "4", "5", "6", "7", "8", "9">>[i]

RECURSIVE Tree(_, _)
Tree(shape, label) ==
    WebArchive(
        WebResource(Bytes(1), label \o <<"/">>, None, "text/html", None, None),
        IF shape.subs < 0 THEN None
        ELSE Some([i \in 1..shape.subs |->
                    WebResource(Bytes(1), label \o <<"/", "s", Digit(i)>>, None,
                                "image/png", None, None)]),
        IF shape.frames = None THEN None
        ELSE Some([j \in 1..Len(Unwrap(shape.frames)) |->
                    Tree(Unwrap(shape.frames)[j], label \o <<"/", "f", Digit(j)>>)]))

TreeArchives == {Tree(x, <<"h", ":", "/", "/", "a">>) : x \in TopShapes}

IdleLib ==
    /\ phase = "extract"
    /\ document = None
    /\ decoded = None
    /\ listing = None

InitExtract ==
    /\ \/ archive \in SingleResourceArchives /\ inside \in BaseDirs
       \/ archive \in TreeArchives /\ inside = <<"o">>
    /\ stack = <<Frame(archive, inside)>>
    /\ files = <<>>
    /\ dirs = {}
    /\ log = <<>>
    /\ status = "running"
    /\ IdleLib

NextExtract ==
    \/ SaveMainResource
    \/ SaveSubresource
    \/ EnterSubframeArchive
    \/ ReturnOk

SpecExtract == InitExtract /\ [][NextExtract]_vars

-----------------------------------------------------------------------------
(* Vocabulary of the properties *)

(* every archive of a tree: the archive itself and, recursively, its       *)
(* subframe archives                                                       *)
RECURSIVE ArchiveNodes(_)
ArchiveNodes(a) ==
    {a} \cup UNION {ArchiveNodes(ListOf(a.subframe_archives)[i]) :
                        i \in 1..Len(ListOf(a.subframe_archives))}

(* every resource of a tree, each once: main resource, subresources in     *)
(* list order, then the resources of each subframe archive in list order   *)
RECURSIVE TreeResources(_)
TreeResources(a) ==
    <<a.main_resource>> \o ListOf(a.subresources)
    \o Flatten([i \in 1..Len(ListOf(a.subframe_archives)) |->
                    TreeResources(ListOf(a.subframe_archives)[i])])

Decoded == phase \in {"decoded", "decoded_edited"}

(* a present empty frame name or text encoding name becomes absent *)
BlankAsAbsent(o) == IF o = Some("") THEN None ELSE o

ResourceBlanksAbsent(r) ==
    [r EXCEPT !.frame_name = BlankAsAbsent(@), !.text_encoding_name = BlankAsAbsent(@)]

RECURSIVE BlanksAbsent(_)
BlanksAbsent(a) ==
    WebArchive(
        ResourceBlanksAbsent(a.main_resource),
        IF IsSome(a.subresources)
        THEN Some([i \in 1..Len(Unwrap(a.subresources)) |->
                    ResourceBlanksAbsent(Unwrap(a.subresources)[i])])
        ELSE None,
        IF IsSome(a.subframe_archives)
        THEN Some([i \in 1..Len(Unwrap(a.subframe_archives)) |->
                    BlanksAbsent(Unwrap(a.subframe_archives)[i])])
        ELSE None)

HasBlank(a) ==
    \E i \in 1..Len(TreeResources(a)) :
        \/ TreeResources(a)[i].frame_name = Some("")
        \/ TreeResources(a)[i].text_encoding_name = Some("")

-----------------------------------------------------------------------------
(* C1 as stated: decoding the encoding of any archive yields that archive, *)
(* also when an optional string field is a present empty string.           *)
C1_RoundTripEveryArchive ==
    phase = "decoded" => decoded.ok /\ decoded.v = archive

(* C1, amended: decoding the encoding of an archive A succeeds and yields  *)
(* A with every present-but-empty frame_name / text_encoding_name turned   *)
(* absent and everything else (data, url, mime type, response, list        *)
(* presence, list order, nested archives) equal; so it yields A itself     *)
(* whenever no frame_name or text_encoding_name in the tree is a present   *)
(* empty string.                                                           *)
C1_RoundTrip ==
    phase = "decoded" =>
        /\ decoded.ok
        /\ decoded.v = BlanksAbsent(archive)
        /\ ~ HasBlank(archive) => decoded.v = archive

C1_Witness ==
    /\ phase = "decoded"
    /\ ~ HasBlank(archive)
    /\ decoded.ok /\ decoded.v = archive
    /\ IsSome(archive.subframe_archives)
    /\ Len(Unwrap(archive.subframe_archives)) = 2
    /\ Unwrap(archive.subframe_archives)[1] # Unwrap(archive.subframe_archives)[2]
    /\ IsSome(archive.subresources)
    /\ Len(Unwrap(archive.subresources)) = 2
    /\ Unwrap(archive.subresources)[1] # Unwrap(archive.subresources)[2]

(* C2: total_size of every archive of the tree is the data length of its   *)
(* main resource plus the data lengths of its direct subresources plus the *)
(* total_size of its direct subframe archives (0 for an absent list), and  *)
(* the total print_list reports is the sum of the data lengths of all      *)
(* resources of the tree, each counted once, responses not counted.        *)
C2_SizeAggregation ==
    phase = "listed" =>
        /\ \A n \in ArchiveNodes(archive) :
              total_size(n) =
                  Len(n.main_resource.data)
                  + SumSeq([i \in 1..Len(ListOf(n.subresources)) |->
                                Len(ListOf(n.subresources)[i].data)])
                  + SumSeq([i \in 1..Len(ListOf(n.subframe_archives)) |->
                                total_size(ListOf(n.subframe_archives)[i])])
        /\ listing[1].total =
              SumSeq([i \in 1..Len(TreeResources(archive)) |->
                        Len(TreeResources(archive)[i].data)])

C2_Witness ==
    /\ phase = "listed"
    /\ IsSome(archive.subresources)
    /\ IsSome(archive.subframe_archives)
    /\ \E i \in 1..Len(TreeResources(archive)) :
          /\ i > 1 + Len(Unwrap(archive.subresources))
          /\ Len(TreeResources(archive)[i].data) > 0
          /\ IsSome(TreeResources(archive)[i].response)
          /\ Len(Unwrap(TreeResources(archive)[i].response)) > 0
    /\ listing[1].total > Len(archive.main_resource.data)

(* unknown keys, looked for in the document itself *)
HasUnknownKey(d) ==
    \/ \E p \in ArchivePaths(d) : ~ (DOMAIN GetAt(d, p).v \subseteq ArchiveKeys)
    \/ \E p \in ResourcePaths(d) : ~ (DOMAIN GetAt(d, p).v \subseteq ResourceKeys)

HasRequiredKeys(d) ==
    /\ \A p \in ArchivePaths(d) : ArchiveRequiredKeys \subseteq DOMAIN GetAt(d, p).v
    /\ \A p \in ResourcePaths(d) : ResourceRequiredKeys \subseteq DOMAIN GetAt(d, p).v

(* C8: a document with a key outside the defined set in any dictionary     *)
(* (top archive, main resource, a subresource, a nested archive or one of  *)
(* its resources, at any depth) fails to decode and yields no archive; a   *)
(* document with only defined keys and every required key decodes.         *)
C8_StrictSchema ==
    Decoded =>
        /\ HasUnknownKey(document) => ~ decoded.ok /\ decoded.v = None
        /\ (~ HasUnknownKey(document) /\ HasRequiredKeys(document)) => decoded.ok

C8_Witness ==
    /\ phase = "decoded_edited"
    /\ ~ decoded.ok
    /\ \E p \in ResourcePaths(document) :
          /\ Len(p) >= 3
          /\ "WebUnknown" \in DOMAIN GetAt(document, p).v
    /\ HasRequiredKeys(document)

(* C9: in a decoded document, for every resource dictionary, frame_name    *)
(* (text_encoding_name) is absent when its key is missing or holds "",     *)
(* and is exactly the key's string otherwise; never a present "".          *)
NormalizedField(f, key) ==
    IF key \notin DOMAIN f \/ f[key].v = "" THEN None ELSE Some(f[key].v)

C9_AbsenceNormalization ==
    (Decoded /\ decoded.ok) =>
        \A p \in ResourcePaths(document) :
            LET f == GetAt(document, p).v
                r == ArchiveAt(decoded.v, p)
            IN  /\ r.frame_name = NormalizedField(f, KeyFrameName)
                /\ r.text_encoding_name = NormalizedField(f, KeyTextEncodingName)
                /\ r.frame_name # Some("")
                /\ r.text_encoding_name # Some("")

C9_Witness ==
    /\ phase = "decoded_edited"
    /\ decoded.ok
    /\ \E p \in ResourcePaths(document) :
          LET f == GetAt(document, p).v
          IN  /\ KeyFrameName \in DOMAIN f
              /\ f[KeyFrameName].v = ""
              /\ KeyTextEncodingName \in DOMAIN f
              /\ f[KeyTextEncodingName].v # ""
              /\ ArchiveAt(decoded.v, p).frame_name = None
              /\ ArchiveAt(decoded.v, p).text_encoding_name = Some("UTF-8")

(* C10: the encoding of an archive has the WebSubresources                 *)
(* (WebSubframeArchives) key in an archive dictionary exactly when that    *)
(* archive's list is present, at every depth, so an absent list is never   *)
(* written as an empty one; and decoding a document yields an absent list  *)
(* exactly where the key is missing, at every depth.                       *)
C10_OptionalListOmission ==
    /\ phase = "encoded" =>
          \A p \in ArchivePaths(document) :
              LET f == GetAt(document, p).v
                  a == ArchiveAt(archive, p)
              IN  /\ KeySubresources \in DOMAIN f <=> IsSome(a.subresources)
                  /\ KeySubframeArchives \in DOMAIN f <=> IsSome(a.subframe_archives)
    /\ (Decoded /\ decoded.ok) =>
          \A p \in ArchivePaths(document) :
              LET f == GetAt(document, p).v
                  a == ArchiveAt(decoded.v, p)
              IN  /\ KeySubresources \notin DOMAIN f <=> a.subresources = None
                  /\ KeySubframeArchives \notin DOMAIN f <=> a.subframe_archives = None

C10_Witness ==
    /\ phase = "decoded"
    /\ decoded.ok
    /\ archive.subresources = None
    /\ KeySubresources \notin DOMAIN document.v
    /\ decoded.v.subresources = None
    /\ IsSome(archive.subframe_archives)
    /\ \E i \in 1..Len(Unwrap(archive.subframe_archives)) :
          /\ Unwrap(archive.subframe_archives)[i].subframe_archives = None
          /\ Unwrap(decoded.v.subframe_archives)[i].subframe_archives = None
          /\ Unwrap(archive.subframe_archives)[i].subresources = Some(<<>>)
          /\ Unwrap(decoded.v.subframe_archives)[i].subresources = Some(<<>>)

-----------------------------------------------------------------------------
(* Properties of the extract run *)

SaveCalls == 1..Len(log)

FileAt(path) == Location(Components(path))

HasDoubleSlash(url) == \E i \in 1..(Len(url) - 1) : url[i] = "/" /\ url[i + 1] = "/"

(* what follows the first "//" of a URL that has one *)
AfterFirstDoubleSlash(url) ==
    LET first == CHOOSE i \in 1..(Len(url) - 1) :
                    /\ url[i] = "/" /\ url[i + 1] = "/"
                    /\ \A j \in 1..(i - 1) : ~ (url[j] = "/" /\ url[j + 1] = "/")
    IN  [k \in 1..(Len(url) - first - 1) |-> url[first + 1 + k]]

LastExtension(mime_type) ==
    LET found == get_mime_extensions_str(mime_type)
    IN  IF found = None THEN <<"t", "x", "t">> ELSE Unwrap(found)[Len(Unwrap(found))]

NamedFrom(R, mime_type) ==
    IF R # <<>> /\ R[Len(R)] = "/"
    THEN R \o <<"_", "u", "n", "n", "a", "m", "e", "d", "_", "i", "n", "d", "e", "x", ".">>
           \o LastExtension(mime_type)
    ELSE R

C4_ExtractionOrder ==
    /\ Len(log) <= Len(TreeResources(archive))
    /\ \A i \in SaveCalls :
          /\ log[i].resource = TreeResources(archive)[i]
          /\ log[i].inside = inside
    /\ status = "returned_ok" =>
          /\ Len(log) = Len(TreeResources(archive))
          /\ \A i \in SaveCalls : log[i].result = "ok"

C4_Witness ==
    /\ status = "returned_ok"
    /\ IsSome(archive.subresources)
    /\ Len(Unwrap(archive.subresources)) = 2
    /\ IsSome(archive.subframe_archives)
    /\ Len(Unwrap(archive.subframe_archives)) = 2
    /\ IsSome(Unwrap(archive.subframe_archives)[1].subframe_archives)
    /\ IsSome(Unwrap(archive.subframe_archives)[1].subresources)
    /\ IsSome(Unwrap(archive.subframe_archives)[2].subresources)
    /\ Len(log) >= 8

Failed(i) == log[i].result # "ok"

(* C5: a save call that fails is the last save call of the run: the run    *)
(* has stopped, no later resource is saved and no later subframe archive   *)
(* is entered; and the file of every save that succeeded before still      *)
(* holds that resource's data, unless a later save call was aimed at the   *)
(* same file.                                                              *)
C5_FailFast ==
    \A i \in SaveCalls :
        /\ Failed(i) =>
              /\ i = Len(log)
              /\ status \in {"returned_err", "panicked"}
        /\ (~ Failed(i) /\ \A j \in (i + 1)..Len(log) :
                                FileAt(log[j].path) # FileAt(log[i].path)) =>
              /\ FileAt(log[i].path) \in DOMAIN files
              /\ files[FileAt(log[i].path)] = log[i].resource.data

C5_Witness ==
    /\ status = "panicked"
    /\ Len(log) = 3
    /\ log[3].result = "err"
    /\ Len(TreeResources(archive)) > 4
    /\ IsSome(archive.subframe_archives)
    /\ Unwrap(archive.subframe_archives) # <<>>
    /\ files[FileAt(log[1].path)] = log[1].resource.data
    /\ files[FileAt(log[2].path)] = log[2].resource.data

(* C6 as stated: whenever the save of a resource of the tree fails with an *)
(* I/O error, save_archive returns that error to its caller.               *)
C6_FailureReturned ==
    \A i \in SaveCalls : log[i].result = "err" => status = "returned_err"

(* a location strictly inside a directory *)
Within(at, dir) ==
    /\ at.root = dir.root
    /\ Len(at.names) > Len(dir.names)
    /\ SubSeq(at.names, 1, Len(dir.names)) = dir.names
    /\ \A k \in 1..Len(at.names) : at.names[k] # <<".", ".">>

(* C7 as stated, for the files alone: every file a save creates lies       *)
(* inside the base directory, whatever the URL.                            *)
C7_PathContainment ==
    \A at \in DOMAIN files : Within(at, FileAt(inside))

=============================================================================
